---- MODULE Spec2Model ----
(***************************************************************************)
(* Model of the ConcertsVienna pipeline: main.py (orchestration),          *)
(* modules/web_logger.py (scraper), modules/api_logger.py (MusicBrainz and *)
(* Spotify adapters) and modules/safe_data.py (PostgreSQL persistence).    *)
(*                                                                         *)
(* Texts are sequences of one-character strings.  Python's None is the     *)
(* string "None" where the value is otherwise a string and the record      *)
(* PyNone where it is otherwise a JSON object.  SQL NULL in an integer     *)
(* column is 0 (SERIAL ids start at 1).                                    *)
(***************************************************************************)
EXTENDS Integers, Sequences, FiniteSets, TLC

VARIABLES
  pc,                  \* position of the script main.py
  exc,                 \* the uncaught exception that ended the run, if any
  printed,             \* messages written to the console in this run
  log,                 \* how often each external resource was used in this run
  concerts_data_df,    \* main.py:34
  artists_names,       \* main.py:37
  input_artist,        \* main.py:40
  spotify_id,          \* main.py:45
  songs,               \* main.py:46
  artist_match,        \* main.py:55
  i,                   \* position of the running for-loop in artists_names
  mb_id,               \* main.py:73
  area,                \* main.py:75
  artists_data_dicti,  \* main.py:71
  albums_data_dicti,   \* main.py:81
  locations_lst,       \* main.py:97
  albums,              \* main.py:83
  areas_lst,           \* main.py:102
  db,                  \* committed content of the PostgreSQL server
  filled,              \* fill operations that have committed on this connection
  since_call,          \* what happened last at the MusicBrainz adapter
  world,               \* what the web site and MusicBrainz answer
  run,                 \* number of the current run of the script
  prev_tables,         \* tables left by the last run that completed persistence
  text,                \* text of one artist cell of the page
  cleaned              \* the artist name collect_data derives from it

prog == <<concerts_data_df, artists_names, input_artist, spotify_id, songs,
          artist_match, i, mb_id, area, albums, artists_data_dicti,
          albums_data_dicti, locations_lst, areas_lst>>
ctl  == <<pc, exc, printed, log>>
env  == <<db, filled, since_call, world, run, prev_tables>>
cell == <<text, cleaned>>
vars == <<prog, ctl, env, cell>>

----------------------------------------------------------------------------
(* Bounds *)

MaxConcerts == 2
MaxRuns == 2
MaxTextLen == 6

----------------------------------------------------------------------------
(* Python values and helpers *)

None == "None"
PyNone == [NoneType |-> TRUE]
NULL == 0
NoText == <<"None">>

LIVE == <<" ", "l", "i", "v", "e">>
COMMA == <<",">>
SPACE == <<" ">>

Range(s) == {s[n] : n \in 1..Len(s)}

SeqsUpTo(S, n) == UNION {[1..m -> S] : m \in 0..n}

\* does sep occur in t at position p
OccursAt(t, sep, p) ==
  /\ p + Len(sep) - 1 <= Len(t)
  /\ \A q \in 1..Len(sep) : t[p + q - 1] = sep[q]

\* str.find: position of the first occurrence of sep in t, 0 when there is none
Find(t, sep) ==
  IF \E p \in 1..Len(t) : OccursAt(t, sep, p)
  THEN CHOOSE p \in 1..Len(t) :
         OccursAt(t, sep, p) /\ \A q \in 1..(p - 1) : ~OccursAt(t, sep, q)
  ELSE 0

\* str.split(sep): the pieces of t between the occurrences of sep, left to right
RECURSIVE PySplit(_, _)
PySplit(t, sep) ==
  LET p == Find(t, sep)
  IN  IF p = 0 THEN <<t>>
      ELSE <<SubSeq(t, 1, p - 1)>> \o PySplit(SubSeq(t, p + Len(sep), Len(t)), sep)

\* pandas Series.unique(): distinct values in order of first appearance
RECURSIVE Unique(_)
Unique(s) ==
  IF s = <<>> THEN <<>>
  ELSE LET u == Unique(SubSeq(s, 1, Len(s) - 1))
       IN  IF s[Len(s)] \in Range(u) THEN u ELSE Append(u, s[Len(s)])

----------------------------------------------------------------------------
(* web_logger.py *)

\* artists.append(artist.text.split(' live')[0])
ArtistName(t) == PySplit(t, LIVE)[1]

\* locations.append(location.text.split(',')[0])
LocationName(t) == PySplit(t, COMMA)[1]

\* dates.append(date.text.split(' ')[1]); the second piece, IndexError without a space
DateToken(t) == PySplit(t, SPACE)[2]

\* pd.to_datetime(..., format='%d.%m.%Y'): the day the token denotes
DayOf == [d \in {"1", "2"} |-> IF d = "1" THEN 1 ELSE 2]
ToDatetime(tok) == DayOf[tok[1]]

\* the cells the page may show
RawArtists == {<<"a">> \o LIVE, <<"b">> \o LIVE}
RawRows ==
  { [date |-> <<"F", " ", "1">>, artist |-> <<"a">> \o LIVE, location |-> <<"G", ",", "w">>],
    [date |-> <<"S", " ", "2">>, artist |-> <<"a">> \o LIVE, location |-> <<"H">>],
    [date |-> <<"S", " ", "2">>, artist |-> <<"b">> \o LIVE, location |-> <<"G", ",", "w">>] }

Names == {ArtistName(t) : t \in RawArtists}
OtherName == <<"z">>

\* the DataFrame collect_data builds from the cells of the page
ParseRows(rows) ==
  [n \in 1..Len(rows) |->
     [Date |-> ToDatetime(DateToken(rows[n].date)),
      Artist |-> ArtistName(rows[n].artist),
      Location |-> LocationName(rows[n].location)]]

Column(df, c) == [n \in 1..Len(df) |-> df[n][c]]

----------------------------------------------------------------------------
(* api_logger.py: ArtistInfos (MusicBrainz) *)

MbIds == {"u1", "u2"}
\* the id the catalog holds for the artist of that name
IdOf(name) == IF name = <<"a">> THEN "u1" ELSE "u2"
OtherId(name) == IF name = <<"a">> THEN "u2" ELSE "u1"

\* what requests.get can end in: a RequestException, or a response with a JSON body
NetworkError == [RequestException |-> TRUE]

IdPayloads(name) ==
  { [error |-> "x"],
    [artists |-> <<>>],
    [artists |-> <<[id |-> IdOf(name)], [id |-> OtherId(name)]>>] }

\* mb_id is interpolated into the url; no artist is registered under the text
\* "None" (the ids are UUIDs), the service answers such a lookup with an error body
AreaPayloads(id) ==
  IF id = None THEN { [error |-> "Invalid mbid."] }
  ELSE { [id |-> id, area |-> PyNone],
         [id |-> id, area |-> [name |-> "A1"]],
         [id |-> id, area |-> [name |-> "A2"]] }

AlbumPayloads(name) ==
  { [error |-> "x"],
    [release_groups |-> <<[credit |-> OtherName, title |-> "t9"],
                          [credit |-> name, title |-> "t1"]>>] }

\* api_request: the JSON body, or None after printing when the request raised
api_request(resp) == IF resp = NetworkError THEN PyNone ELSE resp

api_prints(resp) == IF resp = NetworkError THEN {"Connection to API failed."} ELSE {}

\* variant: the first result is taken without the check for an empty list
get_artist_id_unchecked(query_data) ==
  IF query_data = PyNone THEN [raised |-> "TypeError", value |-> None]
  ELSE IF "artists" \in DOMAIN query_data
       THEN IF query_data.artists # <<>>
            THEN [raised |-> "none", value |-> query_data.artists[1].id]
            ELSE [raised |-> "IndexError", value |-> None]
       ELSE [raised |-> "none", value |-> None]

get_artist_id(query_data) ==
  IF query_data = PyNone THEN [raised |-> "TypeError", value |-> None]
  ELSE IF "artists" \in DOMAIN query_data
       THEN IF query_data.artists # <<>>
            THEN [raised |-> "none", value |-> query_data.artists[1].id]
            ELSE [raised |-> "none", value |-> None]
       ELSE [raised |-> "none", value |-> None]

get_artist_area(artist_data) ==
  IF artist_data = PyNone THEN [raised |-> "TypeError", value |-> None]
  ELSE IF "area" \in DOMAIN artist_data /\ artist_data.area # PyNone
       THEN [raised |-> "none", value |-> artist_data.area.name]
       ELSE [raised |-> "none", value |-> None]

RECURSIVE FilterCredited(_, _)
FilterCredited(release_groups, name) ==
  IF release_groups = <<>> THEN <<>>
  ELSE LET rest == FilterCredited(Tail(release_groups), name)
       IN  IF Head(release_groups).credit = name
           THEN <<Head(release_groups).title>> \o rest
           ELSE rest

get_album_names(album_data, name) ==
  IF album_data = PyNone THEN [raised |-> "TypeError", value |-> <<>>]
  ELSE IF "release_groups" \in DOMAIN album_data
       THEN [raised |-> "none", value |-> FilterCredited(album_data.release_groups, name)]
       ELSE [raised |-> "none", value |-> <<>>]

----------------------------------------------------------------------------
(* api_logger.py: SpotifyAPI *)

TrackLists == {<<>>, <<[name |-> "song"]>>}

SearchPayloads == { [artists |-> [items |-> <<>>]], [artists |-> [items |-> <<[id |-> "s1"]>>]] }

\* artist_id is interpolated into the url; the catalog has no artist under the
\* text "None" and answers with an error body
SongPayloads(id) ==
  IF id = None THEN { [error |-> "invalid id"] }
  ELSE { [tracks |-> tl] : tl \in TrackLists }

search_artist(body) ==
  IF body.artists.items = <<>> THEN None ELSE body.artists.items[1].id

get_songs(body) ==
  IF "tracks" \in DOMAIN body
  THEN [raised |-> "none", value |-> body.tracks]
  ELSE [raised |-> "KeyError", value |-> <<>>]

----------------------------------------------------------------------------
(* difflib.get_close_matches as main.py:53 calls it *)

Blocks(a, b) ==
  {t \in (1..Len(a)) \X (1..Len(b)) \X (1..Len(a)) :
     /\ t[1] + t[3] - 1 <= Len(a)
     /\ t[2] + t[3] - 1 <= Len(b)
     /\ \A q \in 0..(t[3] - 1) : a[t[1] + q] = b[t[2] + q]}

\* find_longest_match: the longest block, the earliest in a, then the earliest in b
Longest(a, b) ==
  CHOOSE t \in Blocks(a, b) :
    \A u \in Blocks(a, b) :
      \/ u[3] < t[3]
      \/ u[3] = t[3] /\ t[1] < u[1]
      \/ u[3] = t[3] /\ t[1] = u[1] /\ t[2] <= u[2]

\* number of matching characters (Ratcliff/Obershelp)
RECURSIVE Matching(_, _)
Matching(a, b) ==
  IF Blocks(a, b) = {} THEN 0
  ELSE LET t == Longest(a, b)
       IN  t[3] + Matching(SubSeq(a, 1, t[1] - 1), SubSeq(b, 1, t[2] - 1))
                + Matching(SubSeq(a, t[1] + t[3], Len(a)), SubSeq(b, t[2] + t[3], Len(b)))

\* ratio() >= 0.8, with ratio = 2*M/T
Close(word, x) ==
  /\ Len(word) + Len(x) > 0
  /\ 10 * 2 * Matching(x, word) >= 8 * (Len(word) + Len(x))

\* ratio(word, x) > ratio(word, y)
Closer(word, x, y) ==
  2 * Matching(x, word) * (Len(word) + Len(y)) > 2 * Matching(y, word) * (Len(word) + Len(x))

get_close_matches(word, possibilities) == {x \in Range(possibilities) : Close(word, x)}

\* matches[0]: the candidate of the highest ratio
BestMatch(word, possibilities) ==
  LET m == get_close_matches(word, possibilities)
  IN  CHOOSE x \in m : \A y \in m : ~Closer(word, y, x)

----------------------------------------------------------------------------
(* safe_data.py: the PostgreSQL server and the statements sent to it *)

EmptyTables ==
  [locations |-> <<>>, areas |-> <<>>, artists |-> <<>>, albums |-> <<>>,
   concerts_data |-> <<>>]

NoDb == [exists |-> FALSE, schema |-> FALSE, t |-> EmptyTables]
FreshDb == [exists |-> TRUE, schema |-> FALSE, t |-> EmptyTables]

\* a database an earlier, different listing left behind
StaleDb ==
  [exists |-> TRUE, schema |-> TRUE,
   t |-> [locations |-> <<[location_id |-> 1, location_name |-> <<"O">>]>>,
          areas |-> <<>>,
          artists |-> <<[artist_id |-> 1, area_id |-> NULL, artist_name |-> <<"o">>,
                         mb_id |-> None]>>,
          albums |-> <<>>,
          concerts_data |-> <<[concert_id |-> 1, location_id |-> 1, artist_id |-> 1,
                               date |-> 1]>>]]

PriorDbs == {NoDb, FreshDb, StaleDb}

Ok(t) == [t |-> t, raised |-> "none"]
Fail(t, e) == [t |-> t, raised |-> e]

MinOf(S) == CHOOSE x \in S : \A y \in S : x <= y

\* mb_id VARCHAR(255) CHECK (mb_id ~* '^[0-9a-f]{8}-...$')
IsUuid(x) == x \in MbIds

\* cursor.fetchone() after SELECT <id> FROM <table> WHERE <name> = %s: the first
\* row as a tuple, or no row (the empty tuple stands for None); `= NULL` is never true
\* variant: the WHERE clause is missing
fetchone_any(table, idcol, namecol, name, null) ==
  IF table = <<>> THEN <<>> ELSE <<table[1][idcol]>>

\* null: what None looks like in the type of the column
fetchone(table, idcol, namecol, name, null) ==
  LET m == {n \in 1..Len(table) : table[n][namecol] = name}
  IN  IF name = null \/ m = {} THEN <<>> ELSE <<table[MinOf(m)][idcol]>>

\* variant: the id is taken out of the row with [0], which None does not support
AdaptParam_subscript(row) ==
  IF row = <<>> THEN [raised |-> "TypeError", v |-> NULL]
  ELSE [raised |-> "none", v |-> row[1]]

\* a fetchone() result passed as a query parameter: None becomes NULL, the tuple
\* (id,) becomes the SQL text (id)
AdaptParam(row) ==
  IF row = <<>> THEN [raised |-> "none", v |-> NULL]
  ELSE [raised |-> "none", v |-> row[1]]

\* INSERT INTO concerts_vienna.locations (location_name) VALUES (%s)
InsertLocation(t, name) ==
  IF \E n \in 1..Len(t.locations) : t.locations[n].location_name = name
  THEN Fail(t, "UniqueViolation")
  ELSE Ok([t EXCEPT !.locations =
             Append(@, [location_id |-> Len(@) + 1, location_name |-> name])])

\* INSERT INTO concerts_vienna.areas (area_name) VALUES (%s)
InsertArea(t, name) ==
  IF name # None /\ \E n \in 1..Len(t.areas) : t.areas[n].area_name = name
  THEN Fail(t, "UniqueViolation")
  ELSE Ok([t EXCEPT !.areas =
             Append(@, [area_id |-> Len(@) + 1, area_name |-> name])])

\* SELECT area_id ...; INSERT INTO concerts_vienna.artists (area_id, artist_name, mb_id)
InsertArtist(t, artist, area_mbid) ==
  LET area_id == AdaptParam(fetchone(t.areas, "area_id", "area_name", area_mbid[1], None))
  IN  IF area_id.raised # "none" THEN Fail(t, area_id.raised)
      ELSE IF area_mbid[2] # None /\ ~IsUuid(area_mbid[2]) THEN Fail(t, "CheckViolation")
      ELSE Ok([t EXCEPT !.artists =
                 Append(@, [artist_id |-> Len(@) + 1, area_id |-> area_id.v,
                            artist_name |-> artist, mb_id |-> area_mbid[2]])])

\* the inner loop of fill_albums_table over the first m albums of one artist
RECURSIVE InsertAlbums(_, _, _, _)
InsertAlbums(t, artist_id, names, m) ==
  IF m = 0 THEN Ok(t)
  ELSE LET r == InsertAlbums(t, artist_id, names, m - 1)
       IN  IF r.raised # "none" THEN r
           ELSE Ok([r.t EXCEPT !.albums =
                      Append(@, [album_id |-> Len(@) + 1, artist_id |-> artist_id,
                                 album_name |-> names[m]])])

\* SELECT artist_id ...; one INSERT INTO concerts_vienna.albums per album
InsertArtistAlbums(t, artist, names) ==
  LET artist_id == AdaptParam(fetchone(t.artists, "artist_id", "artist_name", artist, NoText))
  IN  IF names = <<>> THEN Ok(t)
      ELSE IF artist_id.raised # "none" THEN Fail(t, artist_id.raised)
      ELSE InsertAlbums(t, artist_id.v, names, Len(names))

\* SELECT location_id ...; SELECT artist_id ...; INSERT INTO concerts_vienna.concerts_data
InsertConcert(t, row) ==
  LET location_id == AdaptParam(fetchone(t.locations, "location_id", "location_name",
                                         row.Location, NoText))
      artist_id == AdaptParam(fetchone(t.artists, "artist_id", "artist_name", row.Artist, NoText))
  IN  IF location_id.raised # "none" THEN Fail(t, location_id.raised)
      ELSE IF artist_id.raised # "none" THEN Fail(t, artist_id.raised)
      ELSE Ok([t EXCEPT !.concerts_data =
                 Append(@, [concert_id |-> Len(@) + 1, location_id |-> location_id.v,
                            artist_id |-> artist_id.v, date |-> row.Date])])

\* the statements of one fill_* loop for the first m items of its argument
RECURSIVE Loop(_, _, _, _)
Loop(table, t, items, m) ==
  IF m = 0 THEN Ok(t)
  ELSE LET r == Loop(table, t, items, m - 1)
       IN  IF r.raised # "none" THEN r
           ELSE CASE table = "locations" -> InsertLocation(r.t, items[m])
                  [] table = "areas" -> InsertArea(r.t, items[m])
                  [] table = "artists" -> InsertArtist(r.t, items[m].key, items[m].value)
                  [] table = "albums" -> InsertArtistAlbums(r.t, items[m].key, items[m].value)
                  [] table = "concerts_data" -> InsertConcert(r.t, items[m])

\* The connection of ManageDatabase is not in autocommit mode: the statements of a
\* fill take effect at its closing conn.commit(), which is reached only when every
\* statement ran; an exception ends the process and the server rolls back.
\* r: the outcome of the statements that ran; lost: the server went away
\* variant: every statement is committed as it runs
Transact_autocommit(d, r, lost) ==
  IF r.raised # "none" THEN [db |-> [d EXCEPT !.t = r.t], raised |-> r.raised]
  ELSE IF lost THEN [db |-> [d EXCEPT !.t = r.t], raised |-> "OperationalError"]
  ELSE [db |-> [d EXCEPT !.t = r.t], raised |-> "none"]

Transact(d, r, lost) ==
  IF r.raised # "none" THEN [db |-> d, raised |-> r.raised]
  ELSE IF lost THEN [db |-> d, raised |-> "OperationalError"]
  ELSE [db |-> [d EXCEPT !.t = r.t], raised |-> "none"]

\* fill_<table>_table(items) when the server goes away after k items (k > Len: never)
Fill(table, d, items, k) ==
  LET n == Len(items)
      m == IF k < n THEN k ELSE n
      r == Loop(table, d.t, items, m)
      c == Transact(d, r, k <= n)
  IN  [db |-> c.db, raised |-> c.raised, applied |-> Len(r.t[table]) - Len(d.t[table])]

fill_locations_table(d, lst, k) == Fill("locations", d, lst, k)
fill_areas_table(d, lst, k) == Fill("areas", d, lst, k)
fill_artists_table(d, dicti, k) == Fill("artists", d, dicti, k)
fill_albums_table(d, dicti, k) == Fill("albums", d, dicti, k)
\* variant: repeated records are dropped before the insert
fill_concerts_table_distinct(d, df, k) == Fill("concerts_data", d, Unique(df), k)

fill_concerts_table(d, df, k) == Fill("concerts_data", d, df, k)

\* create_database(): DROP DATABASE IF EXISTS concerts; CREATE database concerts;
\* on an autocommit connection.  k: the statement at which the server goes away
\* (0 connect, 1 DROP, 2 CREATE, 3 never)
\* variant: the DROP statement is missing
create_database_nodrop(d, k) ==
  CASE k \in {0, 1} -> [db |-> d, raised |-> "OperationalError"]
    [] k = 2 -> [db |-> d, raised |-> "OperationalError"]
    [] OTHER -> IF d.exists THEN [db |-> d, raised |-> "DuplicateDatabase"]
                ELSE [db |-> FreshDb, raised |-> "none"]

create_database(d, k) ==
  CASE k \in {0, 1} -> [db |-> d, raised |-> "OperationalError"]
    [] k = 2 -> [db |-> NoDb, raised |-> "OperationalError"]
    [] OTHER -> [db |-> FreshDb, raised |-> "none"]

\* ManageDatabase(): connects to the database 'concerts'
Connect(d, lost) == IF lost \/ ~d.exists THEN "OperationalError" ELSE "none"

\* create_tables(): DROP SCHEMA IF EXISTS (without CASCADE: refused while the schema
\* holds tables); CREATE SCHEMA; five CREATE TABLE; commit
create_tables(d, lost) ==
  IF d.schema THEN [db |-> d, raised |-> "DependentObjectsStillExist"]
  ELSE IF lost THEN [db |-> d, raised |-> "OperationalError"]
  ELSE [db |-> [d EXCEPT !.schema = TRUE, !.t = EmptyTables], raised |-> "none"]

----------------------------------------------------------------------------
(* main.py: the script, one action per call or step *)

Unasked == [unasked |-> TRUE]
NoTables == [none |-> TRUE]
NoExc == [type |-> "none", at |-> "none", after |-> 0]
NoLog == [fetches |-> 0, prompts |-> 0, sp_calls |-> 0, mb_calls |-> 0, db_ops |-> 0,
          charts |-> 0]

Inputs == {<<"a">>, <<"q">>}

PageBodies == {[malformed |-> TRUE]} \cup {[rows |-> r] : r \in SeqsUpTo(RawRows, MaxConcerts)}

\* the answer to a request: the one already given in an earlier run, else any
Ask(known, options) == IF known = Unasked THEN options ELSE {known}

FaultPoints(items) == 0..(Len(items) + 1)

\* the state of the interpreter when the script starts
Fresh ==
  /\ concerts_data_df = <<>> /\ artists_names = <<>>
  /\ input_artist = <<>> /\ spotify_id = None /\ songs = <<>> /\ artist_match = <<>>
  /\ i = 0 /\ mb_id = None /\ area = None /\ albums = <<>>
  /\ artists_data_dicti = <<>> /\ albums_data_dicti = <<>>
  /\ locations_lst = <<>> /\ areas_lst = <<>>
  /\ exc = NoExc /\ printed = {} /\ log = NoLog
  /\ filled = {} /\ since_call = "none"

Init ==
  /\ Fresh
  /\ pc = "collect_data"
  /\ db \in PriorDbs
  /\ world = [page |-> Unasked,
              ids |-> [n \in Names |-> Unasked],
              areas |-> [u \in MbIds \cup {None} |-> Unasked],
              albums |-> [n \in Names |-> Unasked]]
  /\ run = 1
  /\ prev_tables = NoTables
  /\ text = <<>> /\ cleaned = <<>>

\* an uncaught exception ends the script
Abort(type, at) ==
  /\ pc' = "aborted"
  /\ exc' = [type |-> type, at |-> at, after |-> 0]

\* ... in a fill, after `applied` of its rows had been inserted
AbortFill(type, at, applied) ==
  /\ pc' = "aborted"
  /\ exc' = [type |-> type, at |-> at, after |-> applied]

\* variant: the handler is followed by an empty table and the script goes on
CollectDataNetworkError_goes_on ==
  /\ pc = "collect_data"
  /\ log' = [log EXCEPT !.fetches = @ + 1]
  /\ printed' = printed \cup {"Connection to website failed."}
  /\ pc' = "input"
  /\ UNCHANGED <<prog, exc, env, cell>>

\* requests.get raised: the handler prints, then scraper_response is unbound
CollectDataNetworkError ==
  /\ pc = "collect_data"
  /\ log' = [log EXCEPT !.fetches = @ + 1]
  /\ printed' = printed \cup {"Connection to website failed."}
  /\ Abort("UnboundLocalError", "collect_data")
  /\ UNCHANGED <<prog, env, cell>>

\* the page lacks the expected section: website is None
CollectDataMalformed ==
  /\ pc = "collect_data"
  /\ \E body \in Ask(world.page, PageBodies) :
       /\ "malformed" \in DOMAIN body
       /\ world' = [world EXCEPT !.page = body]
  /\ log' = [log EXCEPT !.fetches = @ + 1]
  /\ Abort("AttributeError", "collect_data")
  /\ UNCHANGED <<prog, printed, db, filled, since_call, run, prev_tables, cell>>

\* variant: the database is reset at the top of the script
CollectData_resets_first ==
  /\ pc = "collect_data"
  /\ \E body \in Ask(world.page, PageBodies) :
       /\ "rows" \in DOMAIN body
       /\ world' = [world EXCEPT !.page = body]
       /\ concerts_data_df' = ParseRows(body.rows)
       /\ artists_names' = Unique(Column(ParseRows(body.rows), "Artist"))
  /\ db' = create_database(db, 3).db
  /\ log' = [log EXCEPT !.fetches = @ + 1]
  /\ pc' = "input"
  /\ UNCHANGED <<input_artist, spotify_id, songs, artist_match, i, mb_id, area,
                 albums, artists_data_dicti, albums_data_dicti, locations_lst,
                 areas_lst, exc, printed, filled, since_call, run, prev_tables, cell>>

\* main.py:33-37
CollectData ==
  /\ pc = "collect_data"
  /\ \E body \in Ask(world.page, PageBodies) :
       /\ "rows" \in DOMAIN body
       /\ world' = [world EXCEPT !.page = body]
       /\ concerts_data_df' = ParseRows(body.rows)
       /\ artists_names' = Unique(Column(ParseRows(body.rows), "Artist"))
  /\ log' = [log EXCEPT !.fetches = @ + 1]
  /\ pc' = "input"
  /\ UNCHANGED <<input_artist, spotify_id, songs, artist_match, i, mb_id, area,
                 albums, artists_data_dicti, albums_data_dicti, locations_lst,
                 areas_lst, exc, printed, db, filled, since_call, run, prev_tables, cell>>

\* main.py:40
Input ==
  /\ pc = "input"
  /\ \E name \in Inputs : input_artist' = name
  /\ log' = [log EXCEPT !.prompts = @ + 1]
  /\ pc' = "SpotifyAPI"
  /\ UNCHANGED <<concerts_data_df, artists_names, spotify_id, songs, artist_match, i,
                 mb_id, area, albums, artists_data_dicti, albums_data_dicti, locations_lst,
                 areas_lst, exc, printed, env, cell>>

\* main.py:44, SpotifyAPI.__init__: the token exchange
SpotifyInit ==
  /\ pc = "SpotifyAPI"
  /\ log' = [log EXCEPT !.sp_calls = @ + 1]
  /\ \/ pc' = "search_artist" /\ exc' = exc
     \/ Abort("ConnectionError", "SpotifyAPI")
     \/ Abort("KeyError", "SpotifyAPI")
  /\ UNCHANGED <<prog, printed, env, cell>>

\* main.py:45
SearchArtist ==
  /\ pc = "search_artist"
  /\ log' = [log EXCEPT !.sp_calls = @ + 1]
  /\ \/ /\ \E body \in SearchPayloads : spotify_id' = search_artist(body)
        /\ pc' = "get_songs" /\ exc' = exc
     \/ /\ Abort("ConnectionError", "search_artist")
        /\ spotify_id' = spotify_id
  /\ UNCHANGED <<concerts_data_df, artists_names, input_artist, songs, artist_match, i,
                 mb_id, area, albums, artists_data_dicti, albums_data_dicti, locations_lst,
                 areas_lst, printed, env, cell>>

\* main.py:46
GetSongs ==
  /\ pc = "get_songs"
  /\ log' = [log EXCEPT !.sp_calls = @ + 1]
  /\ \/ \E body \in SongPayloads(spotify_id) :
          LET r == get_songs(body)
          IN  /\ songs' = r.value
              /\ IF r.raised = "none" THEN pc' = "print" /\ exc' = exc
                 ELSE Abort(r.raised, "get_songs")
     \/ /\ Abort("ConnectionError", "get_songs")
        /\ songs' = songs
  /\ UNCHANGED <<concerts_data_df, artists_names, input_artist, spotify_id, artist_match,
                 i, mb_id, area, albums, artists_data_dicti, albums_data_dicti, locations_lst,
                 areas_lst, printed, env, cell>>

\* main.py:48-71: the tracks, the concert of the closest artist, the banner
PrintLookup ==
  /\ pc = "print"
  /\ LET matches == get_close_matches(input_artist, Column(concerts_data_df, "Artist"))
     IN  /\ artist_match' = IF matches # {}
                            THEN BestMatch(input_artist, Column(concerts_data_df, "Artist"))
                            ELSE artist_match
         /\ printed' = printed \cup {"Here are the top tracks of", "Now all data"}
                         \cup (IF songs # <<>> THEN {"track"} ELSE {})
                         \cup (IF matches # {} THEN {"has a concert in Vienna"}
                               ELSE {"has no concert in Vienna"})
  /\ artists_data_dicti' = <<>>
  /\ IF artists_names = <<>> THEN pc' = "create_database" /\ i' = i
     ELSE pc' = "get_artist_id" /\ i' = 1
  /\ UNCHANGED <<concerts_data_df, artists_names, input_artist, spotify_id, songs, mb_id,
                 area, albums, albums_data_dicti, locations_lst, areas_lst, exc, log, env, cell>>

\* dicti[key] = value on a dict kept in insertion order
RECURSIVE DictSet(_, _, _)
DictSet(dicti, key, value) ==
  IF dicti = <<>> THEN <<[key |-> key, value |-> value]>>
  ELSE IF Head(dicti).key = key THEN <<[key |-> key, value |-> value]>> \o Tail(dicti)
  ELSE <<Head(dicti)>> \o DictSet(Tail(dicti), key, value)

\* Series.dropna()
RECURSIVE DropNa(_)
DropNa(s) ==
  IF s = <<>> THEN <<>>
  ELSE IF Head(s) = None THEN DropNa(Tail(s)) ELSE <<Head(s)>> \o DropNa(Tail(s))

Learn(w, field, key, resp) ==
  IF resp = NetworkError THEN w ELSE [w EXCEPT ![field][key] = resp]

\* main.py:73
GetArtistId ==
  /\ pc = "get_artist_id"
  /\ \E resp \in {NetworkError} \cup Ask(world.ids[artists_names[i]],
                                         IdPayloads(artists_names[i])) :
       LET r == get_artist_id(api_request(resp))
       IN  /\ world' = Learn(world, "ids", artists_names[i], resp)
           /\ printed' = printed \cup api_prints(resp)
           /\ IF r.raised = "none"
              THEN mb_id' = r.value /\ pc' = "sleep_id" /\ exc' = exc
              ELSE mb_id' = mb_id /\ Abort(r.raised, "get_artist_id")
  /\ log' = [log EXCEPT !.mb_calls = @ + 1]
  /\ since_call' = "call"
  /\ UNCHANGED <<concerts_data_df, artists_names, input_artist, spotify_id, songs,
                 artist_match, i, area, albums, artists_data_dicti, albums_data_dicti,
                 locations_lst, areas_lst, db, filled, run, prev_tables, cell>>

\* variant: the pause after the id search is missing
SleepAfterId_no_pause ==
  /\ pc = "sleep_id"
  /\ pc' = "get_artist_area"
  /\ UNCHANGED <<prog, exc, printed, log, env, cell>>

\* main.py:74
SleepAfterId ==
  /\ pc = "sleep_id"
  /\ since_call' = "sleep"
  /\ pc' = "get_artist_area"
  /\ UNCHANGED <<prog, exc, printed, log, db, filled, world, run, prev_tables, cell>>

\* main.py:75
GetArtistArea ==
  /\ pc = "get_artist_area"
  /\ \E resp \in {NetworkError} \cup Ask(world.areas[mb_id], AreaPayloads(mb_id)) :
       LET r == get_artist_area(api_request(resp))
       IN  /\ world' = Learn(world, "areas", mb_id, resp)
           /\ printed' = printed \cup api_prints(resp)
           /\ IF r.raised = "none"
              THEN area' = r.value /\ pc' = "sleep_area" /\ exc' = exc
              ELSE area' = area /\ Abort(r.raised, "get_artist_area")
  /\ log' = [log EXCEPT !.mb_calls = @ + 1]
  /\ since_call' = "call"
  /\ UNCHANGED <<concerts_data_df, artists_names, input_artist, spotify_id, songs,
                 artist_match, i, mb_id, albums, artists_data_dicti, albums_data_dicti,
                 locations_lst, areas_lst, db, filled, run, prev_tables, cell>>

\* main.py:76-77, and 81 when the loop ends
SleepAfterArea ==
  /\ pc = "sleep_area"
  /\ since_call' = "sleep"
  /\ artists_data_dicti' = DictSet(artists_data_dicti, artists_names[i], <<area, mb_id>>)
  /\ IF i < Len(artists_names)
     THEN i' = i + 1 /\ pc' = "get_artist_id" /\ albums_data_dicti' = albums_data_dicti
     ELSE i' = 1 /\ pc' = "get_album_names" /\ albums_data_dicti' = <<>>
  /\ UNCHANGED <<concerts_data_df, artists_names, input_artist, spotify_id, songs,
                 artist_match, mb_id, area, albums, locations_lst, areas_lst,
                 exc, printed, log, db, filled, world, run, prev_tables, cell>>

\* main.py:83
GetAlbumNames ==
  /\ pc = "get_album_names"
  /\ \E resp \in {NetworkError}
                   \cup Ask(world.albums[artists_names[i]], AlbumPayloads(artists_names[i])) :
       LET r == get_album_names(api_request(resp), artists_names[i])
       IN  /\ world' = Learn(world, "albums", artists_names[i], resp)
           /\ printed' = printed \cup api_prints(resp)
           /\ IF r.raised = "none"
              THEN albums' = r.value /\ pc' = "sleep_albums" /\ exc' = exc
              ELSE albums' = albums /\ Abort(r.raised, "get_album_names")
  /\ log' = [log EXCEPT !.mb_calls = @ + 1]
  /\ since_call' = "call"
  /\ UNCHANGED <<concerts_data_df, artists_names, input_artist, spotify_id, songs,
                 artist_match, i, mb_id, area, artists_data_dicti, albums_data_dicti,
                 locations_lst, areas_lst, db, filled, run, prev_tables, cell>>

\* main.py:84-85
SleepAfterAlbums ==
  /\ pc = "sleep_albums"
  /\ since_call' = "sleep"
  /\ albums_data_dicti' = DictSet(albums_data_dicti, artists_names[i], albums)
  /\ IF i < Len(artists_names)
     THEN i' = i + 1 /\ pc' = "get_album_names"
     ELSE i' = i /\ pc' = "create_database"
  /\ UNCHANGED <<concerts_data_df, artists_names, input_artist, spotify_id, songs,
                 artist_match, mb_id, area, albums, artists_data_dicti, locations_lst,
                 areas_lst, exc, printed, log, db, filled, world, run, prev_tables, cell>>

\* main.py:92
CreateDatabase ==
  /\ pc = "create_database"
  /\ \E k \in 0..3 :
       LET r == create_database(db, k)
       IN  /\ db' = r.db
           /\ IF r.raised = "none" THEN pc' = "ManageDatabase" /\ exc' = exc
              ELSE Abort(r.raised, "create_database")
  /\ log' = [log EXCEPT !.db_ops = @ + 1]
  /\ UNCHANGED <<prog, printed, filled, since_call, world, run, prev_tables, cell>>

\* main.py:93
ManageDatabaseInit ==
  /\ pc = "ManageDatabase"
  /\ \E lost \in BOOLEAN :
       IF Connect(db, lost) = "none" THEN pc' = "create_tables" /\ exc' = exc
       ELSE Abort(Connect(db, lost), "ManageDatabase")
  /\ log' = [log EXCEPT !.db_ops = @ + 1]
  /\ UNCHANGED <<prog, printed, env, cell>>

\* main.py:94
CreateTables ==
  /\ pc = "create_tables"
  /\ \E lost \in BOOLEAN :
       LET r == create_tables(db, lost)
       IN  /\ db' = r.db
           /\ IF r.raised = "none" THEN pc' = "fill_locations" /\ exc' = exc
              ELSE Abort(r.raised, "create_tables")
  /\ log' = [log EXCEPT !.db_ops = @ + 1]
  /\ UNCHANGED <<prog, printed, filled, since_call, world, run, prev_tables, cell>>

\* the outcome r of the fill of `table`: on to `next`, or the exception
Filled(r, table, next) ==
  /\ db' = r.db
  /\ IF r.raised = "none"
     THEN pc' = next /\ exc' = exc /\ filled' = filled \cup {table}
     ELSE AbortFill(r.raised, table, r.applied) /\ filled' = filled
  /\ log' = [log EXCEPT !.db_ops = @ + 1]

\* main.py:97-98
FillLocations ==
  /\ pc = "fill_locations"
  /\ locations_lst' = Unique(Column(concerts_data_df, "Location"))
  /\ \E k \in FaultPoints(locations_lst') :
       Filled(fill_locations_table(db, locations_lst', k), "locations", "fill_areas")
  /\ UNCHANGED <<concerts_data_df, artists_names, input_artist, spotify_id, songs,
                 artist_match, i, mb_id, area, albums, artists_data_dicti,
                 albums_data_dicti, areas_lst, printed, since_call, world, run,
                 prev_tables, cell>>

\* main.py:101-103
FillAreas ==
  /\ pc = "fill_areas"
  /\ areas_lst' = Unique(DropNa([n \in 1..Len(artists_data_dicti) |->
                                   artists_data_dicti[n].value[1]]))
  /\ \E k \in FaultPoints(areas_lst') :
       Filled(fill_areas_table(db, areas_lst', k), "areas", "fill_artists")
  /\ UNCHANGED <<concerts_data_df, artists_names, input_artist, spotify_id, songs,
                 artist_match, i, mb_id, area, albums, artists_data_dicti,
                 albums_data_dicti, locations_lst, printed, since_call, world, run,
                 prev_tables, cell>>

\* main.py:106
FillArtists ==
  /\ pc = "fill_artists"
  /\ \E k \in FaultPoints(artists_data_dicti) :
       Filled(fill_artists_table(db, artists_data_dicti, k), "artists", "fill_albums")
  /\ UNCHANGED <<prog, printed, since_call, world, run, prev_tables, cell>>

\* main.py:109
FillAlbums ==
  /\ pc = "fill_albums"
  /\ \E k \in FaultPoints(albums_data_dicti) :
       Filled(fill_albums_table(db, albums_data_dicti, k), "albums", "fill_concerts")
  /\ UNCHANGED <<prog, printed, since_call, world, run, prev_tables, cell>>

\* main.py:112-115
FillConcerts ==
  /\ pc = "fill_concerts"
  /\ \E k \in FaultPoints(concerts_data_df) :
       LET r == fill_concerts_table(db, concerts_data_df, k)
       IN  /\ Filled(r, "concerts_data", "charts")
           /\ printed' = IF r.raised = "none" THEN printed \cup {"Database created"}
                         ELSE printed
  /\ UNCHANGED <<prog, since_call, world, run, prev_tables, cell>>

\* main.py:122-166
RenderCharts ==
  /\ pc = "charts"
  /\ log' = [log EXCEPT !.charts = @ + 1]
  /\ \/ pc' = "done" /\ exc' = exc /\ printed' = printed \cup {"Plotting completed"}
     \/ Abort("OSError", "charts") /\ printed' = printed
  /\ UNCHANGED <<prog, env, cell>>

\* the run got through line 112
Persisted == pc \in {"charts", "done"} \/ (pc = "aborted" /\ exc.at = "charts")

\* the script is started again after a run that persisted; the server and the
\* outside world stay as they are (what other runs leave behind is in PriorDbs)
Restart ==
  /\ pc \in {"done", "aborted"}
  /\ Persisted
  /\ run < MaxRuns
  /\ run' = run + 1
  /\ prev_tables' = db.t
  /\ pc' = "collect_data"
  /\ concerts_data_df' = <<>> /\ artists_names' = <<>>
  /\ input_artist' = <<>> /\ spotify_id' = None /\ songs' = <<>> /\ artist_match' = <<>>
  /\ i' = 0 /\ mb_id' = None /\ area' = None /\ albums' = <<>>
  /\ artists_data_dicti' = <<>> /\ albums_data_dicti' = <<>>
  /\ locations_lst' = <<>> /\ areas_lst' = <<>>
  /\ exc' = NoExc /\ printed' = {} /\ log' = NoLog
  /\ filled' = {} /\ since_call' = "none"
  /\ UNCHANGED <<db, world, cell>>

Next ==
  \/ CollectDataNetworkError \/ CollectDataMalformed \/ CollectData
  \/ Input \/ SpotifyInit \/ SearchArtist \/ GetSongs \/ PrintLookup
  \/ GetArtistId \/ SleepAfterId \/ GetArtistArea \/ SleepAfterArea
  \/ GetAlbumNames \/ SleepAfterAlbums
  \/ CreateDatabase \/ ManageDatabaseInit \/ CreateTables
  \/ FillLocations \/ FillAreas \/ FillArtists \/ FillAlbums \/ FillConcerts
  \/ RenderCharts \/ Restart

Spec == Init /\ [][Next]_vars

----------------------------------------------------------------------------
(* ManageDatabase used on its own: after create_database(), ManageDatabase() and  *)
(* create_tables(), each fill method is called at most once, in any order and    *)
(* with any argument                                                             *)

MaxItems == 2

LocationNames == {<<"G">>, <<"H">>}
ArtistEntries ==
  { [key |-> <<"a">>, value |-> <<"A1", "u1">>],
    [key |-> <<"b">>, value |-> <<None, None>>],
    [key |-> <<"b">>, value |-> <<"A2", "0">>] }
AlbumEntries ==
  { [key |-> <<"a">>, value |-> <<"t1">>],
    [key |-> <<"b">>, value |-> <<>>],
    [key |-> <<"b">>, value |-> <<"t1", "t2">>] }
ConcertRows ==
  { [Date |-> 1, Artist |-> <<"a">>, Location |-> <<"G">>],
    [Date |-> 2, Artist |-> <<"b">>, Location |-> <<"H">>] }

\* a dict holds each key once
Dicts(entries) ==
  {d \in SeqsUpTo(entries, MaxItems) :
     \A m, n \in 1..Len(d) : d[m].key = d[n].key => m = n}

InitRepo ==
  /\ Fresh
  /\ pc = "repository"
  /\ db = [exists |-> TRUE, schema |-> TRUE, t |-> EmptyTables]
  /\ world = [page |-> Unasked,
              ids |-> [n \in Names |-> Unasked],
              areas |-> [u \in MbIds \cup {None} |-> Unasked],
              albums |-> [n \in Names |-> Unasked]]
  /\ run = 1
  /\ prev_tables = NoTables
  /\ text = <<>> /\ cleaned = <<>>

RepoFillLocations ==
  /\ pc = "repository" /\ "locations" \notin filled
  /\ \E lst \in SeqsUpTo(LocationNames, MaxItems) :
       /\ locations_lst' = lst
       /\ \E k \in FaultPoints(lst) :
            Filled(fill_locations_table(db, lst, k), "locations", "repository")
  /\ UNCHANGED <<concerts_data_df, artists_names, input_artist, spotify_id, songs,
                 artist_match, i, mb_id, area, albums, artists_data_dicti,
                 albums_data_dicti, areas_lst, printed, since_call, world, run,
                 prev_tables, cell>>

RepoFillAreas ==
  /\ pc = "repository" /\ "areas" \notin filled
  /\ \E lst \in SeqsUpTo({"A1"}, MaxItems) :
       /\ areas_lst' = lst
       /\ \E k \in FaultPoints(lst) :
            Filled(fill_areas_table(db, lst, k), "areas", "repository")
  /\ UNCHANGED <<concerts_data_df, artists_names, input_artist, spotify_id, songs,
                 artist_match, i, mb_id, area, albums, artists_data_dicti,
                 albums_data_dicti, locations_lst, printed, since_call, world, run,
                 prev_tables, cell>>

RepoFillArtists ==
  /\ pc = "repository" /\ "artists" \notin filled
  /\ \E dicti \in Dicts(ArtistEntries) :
       /\ artists_data_dicti' = dicti
       /\ \E k \in FaultPoints(dicti) :
            Filled(fill_artists_table(db, dicti, k), "artists", "repository")
  /\ UNCHANGED <<concerts_data_df, artists_names, input_artist, spotify_id, songs,
                 artist_match, i, mb_id, area, albums, albums_data_dicti, locations_lst,
                 areas_lst, printed, since_call, world, run, prev_tables, cell>>

RepoFillAlbums ==
  /\ pc = "repository" /\ "albums" \notin filled
  /\ \E dicti \in Dicts(AlbumEntries) :
       /\ albums_data_dicti' = dicti
       /\ \E k \in FaultPoints(dicti) :
            Filled(fill_albums_table(db, dicti, k), "albums", "repository")
  /\ UNCHANGED <<concerts_data_df, artists_names, input_artist, spotify_id, songs,
                 artist_match, i, mb_id, area, albums, artists_data_dicti, locations_lst,
                 areas_lst, printed, since_call, world, run, prev_tables, cell>>

RepoFillConcerts ==
  /\ pc = "repository" /\ "concerts_data" \notin filled
  /\ \E df \in SeqsUpTo(ConcertRows, MaxItems) :
       /\ concerts_data_df' = df
       /\ \E k \in FaultPoints(df) :
            Filled(fill_concerts_table(db, df, k), "concerts_data", "repository")
  /\ UNCHANGED <<artists_names, input_artist, spotify_id, songs, artist_match, i, mb_id,
                 area, albums, artists_data_dicti, albums_data_dicti, locations_lst,
                 areas_lst, printed, since_call, world, run, prev_tables, cell>>

NextRepo ==
  \/ RepoFillLocations \/ RepoFillAreas \/ RepoFillArtists \/ RepoFillAlbums
  \/ RepoFillConcerts

SpecRepo == InitRepo /\ [][NextRepo]_vars

----------------------------------------------------------------------------
(* collect_data's clean-up of one artist cell, for any text of the cell *)

Chars == {" ", "l", "i", "v", "e"}

InitCell ==
  /\ Fresh
  /\ pc = "cell"
  /\ db = NoDb
  /\ world = [page |-> Unasked,
              ids |-> [n \in Names |-> Unasked],
              areas |-> [u \in MbIds \cup {None} |-> Unasked],
              albums |-> [n \in Names |-> Unasked]]
  /\ run = 1
  /\ prev_tables = NoTables
  /\ text \in SeqsUpTo(Chars, MaxTextLen)
  /\ cleaned = <<>>

\* web_logger.py:57
CleanCell ==
  /\ pc = "cell"
  /\ cleaned' = ArtistName(text)
  /\ pc' = "cleaned"
  /\ UNCHANGED <<prog, exc, printed, log, env, text>>

NextCell == CleanCell

SpecCell == InitCell /\ [][NextCell]_vars

----------------------------------------------------------------------------
(* The claims *)

EnrichmentCalls == {"get_artist_id", "get_artist_area", "get_album_names"}
FillTables == {"locations", "areas", "artists", "albums", "concerts_data"}
PastEnrichment ==
  {"create_database", "ManageDatabase", "create_tables", "fill_locations", "fill_areas",
   "fill_artists", "fill_albums", "fill_concerts", "charts", "done"}

\* C1: a network error in a MusicBrainz call during batch enrichment is caught and
\* reported and never ends the run
C1_NetworkErrorNeverAborts ==
  ~(/\ pc = "aborted"
    /\ exc.at \in EnrichmentCalls
    /\ "Connection to API failed." \in printed)

\* C2: whatever the catalog search and the fuzzy match come to, the interactive
\* step does not end the run (only a lost connection could)
C2_LookupNeverGates ==
  (pc = "aborted" /\ exc.at \in {"search_artist", "get_songs", "print"})
    => exc.type = "ConnectionError"

\* C4: after a network error at the fetch of the page the error is reported, the run
\* is over, the page was requested once, and nothing else was used
C4_FetchErrorAborts ==
  /\ (pc = "aborted" /\ exc.type = "UnboundLocalError")
       => "Connection to website failed." \in printed
  /\ "Connection to website failed." \in printed
       => /\ pc = "aborted"
          /\ log = [NoLog EXCEPT !.fetches = 1]

C4_Witness ==
  /\ pc = "aborted" /\ exc.at = "collect_data"
  /\ "Connection to website failed." \in printed
  /\ log.fetches = 1

\* the names in column c of a table
NamesIn(table, c) == {table[n][c] : n \in 1..Len(table)}

\* no row of `parent` answers the lookup of `name`
Miss(parent, namecol, name, null) == name = null \/ name \notin NamesIn(parent, namecol)

\* C3: a dependent row whose name-to-id lookup finds no parent row is inserted with a
\* null foreign key, the fill commits, and no fill of a dependent table ends in an
\* error a lookup miss has caused
C3_MissInsertsNull ==
  [][/\ ("artists" \notin filled /\ "artists" \in filled')
          => /\ Len(db'.t.artists) = Len(artists_data_dicti')
             /\ \A n \in 1..Len(artists_data_dicti') :
                  Miss(db.t.areas, "area_name", artists_data_dicti'[n].value[1], None)
                    => db'.t.artists[n].area_id = NULL
     /\ ("albums" \notin filled /\ "albums" \in filled')
          => \A n \in 1..Len(albums_data_dicti') :
               (/\ Miss(db.t.artists, "artist_name", albums_data_dicti'[n].key, NoText)
                /\ albums_data_dicti'[n].value # <<>>)
                 => \A title \in Range(albums_data_dicti'[n].value) :
                      \E m \in 1..Len(db'.t.albums) :
                        /\ db'.t.albums[m].album_name = title
                        /\ db'.t.albums[m].artist_id = NULL
     /\ ("concerts_data" \notin filled /\ "concerts_data" \in filled')
          => /\ Len(db'.t.concerts_data) = Len(concerts_data_df')
             /\ \A n \in 1..Len(concerts_data_df') :
                  /\ Miss(db.t.locations, "location_name", concerts_data_df'[n].Location,
                          NoText)
                       => db'.t.concerts_data[n].location_id = NULL
                  /\ Miss(db.t.artists, "artist_name", concerts_data_df'[n].Artist, NoText)
                       => db'.t.concerts_data[n].artist_id = NULL
     /\ (pc' = "aborted" /\ exc'.at \in {"artists", "albums", "concerts_data"})
          => \/ exc'.type = "OperationalError"
             \/ /\ exc'.type = "CheckViolation" /\ exc'.at = "artists"
                /\ \E n \in 1..Len(artists_data_dicti') :
                     artists_data_dicti'[n].value[2] \notin MbIds \cup {None}
    ]_vars

C3_Witness ==
  /\ pc = "repository"
  /\ {"artists", "albums", "concerts_data"} \subseteq filled
  /\ \E n \in 1..Len(db.t.artists) :
       db.t.artists[n].area_id = NULL /\ artists_data_dicti[n].value[1] # None
  /\ \E m \in 1..Len(db.t.albums) : db.t.albums[m].artist_id = NULL
  /\ \E n \in 1..Len(db.t.concerts_data) :
       db.t.concerts_data[n].location_id = NULL /\ db.t.concerts_data[n].artist_id = NULL

\* the areas the enrichment returned
AreasFound == {artists_data_dicti[n].value[1] : n \in 1..Len(artists_data_dicti)} \ {None}

\* C5: after persistence each of locations, areas and artists holds one row per
\* distinct scraped location, enriched non-null area and scraped artist, and
\* concerts_data holds one row per scraped record
C5_OneRowPerValue ==
  Persisted =>
    /\ Len(db.t.locations) = Cardinality(NamesIn(concerts_data_df, "Location"))
    /\ NamesIn(db.t.locations, "location_name") = NamesIn(concerts_data_df, "Location")
    /\ Len(db.t.areas) = Cardinality(AreasFound)
    /\ NamesIn(db.t.areas, "area_name") = AreasFound
    /\ Len(db.t.artists) = Cardinality(NamesIn(concerts_data_df, "Artist"))
    /\ NamesIn(db.t.artists, "artist_name") = NamesIn(concerts_data_df, "Artist")
    /\ Len(db.t.concerts_data) = Len(concerts_data_df)

C5_Witness ==
  /\ Persisted
  /\ Len(concerts_data_df) = 2
  /\ concerts_data_df[1] = concerts_data_df[2]
  /\ Len(db.t.concerts_data) = 2
  /\ Len(db.t.artists) = 1 /\ Len(db.t.locations) = 1 /\ Len(db.t.areas) = 1

\* the (artist, title) pairs of albums_data_dicti in the order of the inserts
RECURSIVE AlbumPairs(_)
AlbumPairs(dicti) ==
  IF dicti = <<>> THEN <<>>
  ELSE [n \in 1..Len(Head(dicti).value) |->
          [artist |-> Head(dicti).key, title |-> Head(dicti).value[n]]]
       \o AlbumPairs(Tail(dicti))

\* the row of `parent` that id refers to carries `name`
RefersTo(parent, idcol, namecol, id, name) ==
  \E n \in 1..Len(parent) : parent[n][idcol] = id /\ parent[n][namecol] = name

\* C6: after persistence every foreign key refers to the parent row of the name it
\* was resolved from; an area_id is null exactly when the artist has no area
C6_ForeignKeysResolve ==
  Persisted =>
    /\ Len(db.t.concerts_data) = Len(concerts_data_df)
    /\ \A n \in 1..Len(db.t.concerts_data) :
         /\ RefersTo(db.t.locations, "location_id", "location_name",
                     db.t.concerts_data[n].location_id, concerts_data_df[n].Location)
         /\ RefersTo(db.t.artists, "artist_id", "artist_name",
                     db.t.concerts_data[n].artist_id, concerts_data_df[n].Artist)
    /\ Len(db.t.albums) = Len(AlbumPairs(albums_data_dicti))
    /\ \A m \in 1..Len(db.t.albums) :
         /\ db.t.albums[m].album_name = AlbumPairs(albums_data_dicti)[m].title
         /\ RefersTo(db.t.artists, "artist_id", "artist_name", db.t.albums[m].artist_id,
                     AlbumPairs(albums_data_dicti)[m].artist)
    /\ Len(db.t.artists) = Len(artists_data_dicti)
    /\ \A n \in 1..Len(db.t.artists) :
         /\ db.t.artists[n].artist_name = artists_data_dicti[n].key
         /\ (db.t.artists[n].area_id = NULL) <=> (artists_data_dicti[n].value[1] = None)
         /\ artists_data_dicti[n].value[1] # None
              => RefersTo(db.t.areas, "area_id", "area_name", db.t.artists[n].area_id,
                          artists_data_dicti[n].value[1])

C6_Witness ==
  /\ Persisted
  /\ Len(db.t.concerts_data) = 2
  /\ db.t.concerts_data[1].artist_id # db.t.concerts_data[2].artist_id
  /\ Len(db.t.areas) = 2
  /\ Len(db.t.albums) = 2
  /\ db.t.albums[1].artist_id # db.t.albums[2].artist_id

Keys(dicti) == [n \in 1..Len(dicti) |-> dicti[n].key]

\* C7: an id search without a result gives the artist no id and no area, does not end
\* the run, leaves the other artists to be enriched, and the artist is persisted as
\* one row without mb_id and area_id
C7_NoneResultContinues ==
  /\ \A n \in 1..Len(artists_data_dicti) :
       artists_data_dicti[n].value[2] = None => artists_data_dicti[n].value[1] = None
  /\ (pc = "aborted" /\ exc.at \in {"get_artist_id", "get_artist_area"})
       => "Connection to API failed." \in printed
  /\ pc \in PastEnrichment
       => Keys(artists_data_dicti) = artists_names /\ Keys(albums_data_dicti) = artists_names
  /\ Persisted
       => \A n \in 1..Len(artists_data_dicti) :
            artists_data_dicti[n].value[2] = None
              => /\ Cardinality({m \in 1..Len(db.t.artists) :
                       db.t.artists[m].artist_name = artists_data_dicti[n].key}) = 1
                 /\ \A m \in 1..Len(db.t.artists) :
                      db.t.artists[m].artist_name = artists_data_dicti[n].key
                        => db.t.artists[m].mb_id = None /\ db.t.artists[m].area_id = NULL

C7_Witness ==
  /\ Persisted
  /\ Len(artists_data_dicti) = 2
  /\ world.ids[artists_names[1]] = [artists |-> <<>>]
  /\ artists_data_dicti[1].value = <<None, None>>
  /\ artists_data_dicti[2].value[2] # None
  /\ db.t.artists[1].mb_id = None /\ db.t.artists[1].area_id = NULL

\* the SERIAL PRIMARY KEY column of a table
IdColumn(tb) ==
  CASE tb = "locations" -> "location_id"
    [] tb = "areas" -> "area_id"
    [] tb = "artists" -> "artist_id"
    [] tb = "albums" -> "album_id"
    [] tb = "concerts_data" -> "concert_id"

\* C8: every run drops and recreates the database and the schema before it inserts:
\* the fills start on empty tables, what is on the server beforehand never stops this,
\* the persisted tables hold rows of this run's data only, and a second run over the
\* same data leaves the same tables
C8_DestructiveReset ==
  /\ pc = "fill_locations" => db = [exists |-> TRUE, schema |-> TRUE, t |-> EmptyTables]
  /\ pc = "aborted" => exc.type \notin {"DuplicateDatabase", "DependentObjectsStillExist"}
  /\ Persisted
       => /\ NamesIn(db.t.locations, "location_name") \subseteq NamesIn(concerts_data_df, "Location")
          /\ NamesIn(db.t.artists, "artist_name") \subseteq NamesIn(concerts_data_df, "Artist")
          /\ NamesIn(db.t.areas, "area_name") \subseteq AreasFound
          /\ Len(db.t.concerts_data) = Len(concerts_data_df)
          /\ Len(db.t.albums) = Len(AlbumPairs(albums_data_dicti))
          /\ \A tb \in FillTables : \A n \in 1..Len(db.t[tb]) : db.t[tb][n][IdColumn(tb)] = n
  /\ (Persisted /\ prev_tables # NoTables) => db.t = prev_tables

C8_Witness ==
  /\ Persisted
  /\ run = 2
  /\ prev_tables = db.t
  /\ Len(db.t.concerts_data) = 2 /\ Len(db.t.albums) = 1 /\ Len(db.t.areas) = 1

\* the rows fill `tb` was given
Given(tb) ==
  CASE tb = "locations" -> Len(locations_lst)
    [] tb = "areas" -> Len(areas_lst)
    [] tb = "artists" -> Len(artists_data_dicti)
    [] tb = "albums" -> Len(AlbumPairs(albums_data_dicti))
    [] tb = "concerts_data" -> Len(concerts_data_df)

\* C9: when a fill fails part-way, the table shows none of its rows, and the tables
\* of the fills that finished before keep all of theirs
C9_FillCommitsAtOnce ==
  (pc = "aborted" /\ exc.at \in FillTables)
    => /\ db.t[exc.at] = <<>>
       /\ \A tb \in filled : Len(db.t[tb]) = Given(tb)

C9_Witness ==
  /\ pc = "aborted" /\ exc.at = "concerts_data" /\ exc.after = 1
  /\ db.t.concerts_data = <<>>
  /\ Len(db.t.locations) = 2 /\ Len(db.t.artists) = 2

\* t without one " live" at its end, t itself when it does not end so
StripTrailingLive(t) ==
  IF Len(t) >= Len(LIVE) /\ SubSeq(t, Len(t) - Len(LIVE) + 1, Len(t)) = LIVE
  THEN SubSeq(t, 1, Len(t) - Len(LIVE))
  ELSE t

\* C10: the artist name is the cell text without one trailing " live", and the
\* unchanged text when the text does not end with " live"
C10_StripsTrailingLiveOnly ==
  pc = "cleaned" => cleaned = StripTrailingLive(text)


\* a step that issues a call to the MusicBrainz adapter
MbCall == log'.mb_calls = log.mb_calls + 1

\* C11: every call to the MusicBrainz adapter but the first of a run comes right
\* after a time.sleep, in both loops and from one artist to the next
C11_CallsArePaced ==
  [][MbCall => /\ since_call # "call"
               /\ log.mb_calls > 0 => since_call = "sleep"
               /\ since_call' = "call"]_vars

C11_Witness ==
  /\ pc = "create_database"
  /\ Len(artists_names) = 2
  /\ log.mb_calls = 6
  /\ since_call = "sleep"

\* the positions of the script before line 92
BeforeDatabase ==
  {"collect_data", "input", "SpotifyAPI", "search_artist", "get_songs", "print",
   "get_artist_id", "sleep_id", "get_artist_area", "sleep_area", "get_album_names",
   "sleep_albums"}
EarlyCalls ==
  {"collect_data", "SpotifyAPI", "search_artist", "get_songs", "print"} \cup EnrichmentCalls

\* C12: no step before create_database touches the server, so a run that ends in
\* scraping, the interactive step or enrichment leaves the database as it found it
C12_EarlyAbortKeepsDatabase ==
  /\ []((pc \in BeforeDatabase \/ (pc = "aborted" /\ exc.at \in EarlyCalls))
          => /\ log.db_ops = 0
             /\ run > 1 => db = [exists |-> TRUE, schema |-> TRUE, t |-> prev_tables])
  /\ [][(pc \in BeforeDatabase) => (db' = db)]_vars

C12_Witness ==
  /\ pc = "aborted" /\ exc.at \in EnrichmentCalls
  /\ run = 2
  /\ db.t = prev_tables
  /\ Len(db.t.concerts_data) = 2 /\ Len(db.t.artists) = 2

====
